---- MODULE Spec2Model ----
(***************************************************************************)
(* Model of telegram_text_splitter/splitter.py: the split-point resolver   *)
(* find_safe_split and the chunk assembler split_markdown_into_chunks.     *)
(*                                                                         *)
(* A Python str is a sequence of one-character strings.  Offsets are the   *)
(* 0-based offsets of the source; At(s, i) is s[i] of the source.  Python  *)
(* None and the empty string are both the empty sequence: the source only  *)
(* ever tests a continuation for truthiness.                               *)
(***************************************************************************)
EXTENDS Integers, Sequences, FiniteSets, TLC

\* ------------------------------------------------------------------ bounds
\* the longest text and the largest max_chunk_size of Spec
MaxTextLen == 5
MaxChunkSize == 4
\* SpecFence: the longest text after the opening fence, the largest
\* max_chunk_size
MaxFenceTail == 7
MaxFenceChunk == 7
\* SpecInline: the longest text after the opening delimiter, the largest
\* max_chunk_size
MaxInlineTail == 5
MaxInlineChunk == 5
\* SpecPlain: the longest text, the largest max_chunk_size
MaxPlainLen == 7
MaxPlainChunk == 4
\* SpecRollback: the longest text after the leading paragraph break, the
\* largest max_chunk_size
MaxRollbackTail == 6
MaxRollbackChunk == 7
\* SpecAnySize: the longest text, the largest max_chunk_size, the largest
\* absolute value of a negative max_chunk_size, and the number of iterations
\* beyond len(text) that a run is followed for
MaxAnyLen == 4
MaxAnyChunk == 3
MaxNegChunk == 2
MaxStall == 2
\* SpecMath: the longest text after the opening display-math or bracket-math
\* delimiter, the largest max_chunk_size
MaxMathTail == 6
MaxMathChunk == 7
\* SpecEscape: the longest text, the largest max_chunk_size
MaxEscapeLen == 5
MaxEscapeChunk == 4

\* -------------------------------------------------------------- characters
\* the backtick, U+0060: the TLA+ lexer admits no backtick in a string
\* literal, so the character is written by name
BT == "BACKTICK"
DL == "$"
BS == "\\"
LB == "["
RB == "]"
NL == "\n"
SP == " "
PLUS == "+"
None == <<>>

\* \w of the regular expressions, restricted to the letters the model uses
WordChars == {"a", "n"}
\* \s and the class [ \t\n\r], restricted likewise
SpaceChars == {SP, NL}

FENCE == <<BT, BT, BT>>
DISPLAY == <<DL, DL>>
BRACKET_OPEN == <<BS, LB>>
BRACKET_CLOSE == <<BS, RB>>

\* --------------------------------------------------------- Python strings
Min(a, b) == IF a <= b THEN a ELSE b
Max(a, b) == IF a >= b THEN a ELSE b
SetMax(S) == CHOOSE x \in S : \A y \in S : y <= x

At(s, i) == s[i + 1]

\* a slice bound as Python normalises it: negative counts from the end
PyIndex(s, i) == IF i < 0 THEN Max(0, Len(s) + i) ELSE Min(i, Len(s))

\* s[a:b]
PySlice(s, a, b) ==
    LET lo == PyIndex(s, a)
        hi == PyIndex(s, b)
    IN  IF hi <= lo THEN <<>> ELSE SubSeq(s, lo + 1, hi)

\* s[a:]
PyTail(s, a) == PySlice(s, a, Len(s))

\* does the literal sub occur in s at offset i
MatchAt(s, sub, i) ==
    /\ i >= 0
    /\ i + Len(sub) <= Len(s)
    /\ \A k \in 1..Len(sub) : s[i + k] = sub[k]

\* s.startswith(sub)
startswith(s, sub) == MatchAt(s, sub, 0)

\* s.rfind(sub, start, end): the highest offset of sub lying wholly in
\* s[start:end], -1 when there is none
rfind(s, sub, start, end) ==
    LET lo == PyIndex(s, start)
        hi == PyIndex(s, end)
        C  == {i \in lo..(hi - Len(sub)) : MatchAt(s, sub, i)}
    IN  IF C = {} THEN -1 ELSE SetMax(C)

\* s.lstrip("\n ")
RECURSIVE lstrip(_)
lstrip(s) ==
    IF s # <<>> /\ Head(s) \in {NL, SP} THEN lstrip(Tail(s)) ELSE s

\* --------------------------------------------------- regular expressions
\* the lookbehind (?<!\\) at offset i
NotEscaped(s, i) == ~(i > 0 /\ At(s, i - 1) = BS)

\* re.finditer of a literal, optionally behind (?<!\\): the offsets of the
\* leftmost non-overlapping matches
RECURSIVE ScanFrom(_, _, _, _)
ScanFrom(s, pat, esc, i) ==
    IF i + Len(pat) > Len(s) THEN <<>>
    ELSE IF MatchAt(s, pat, i) /\ (esc => NotEscaped(s, i))
         THEN <<i>> \o ScanFrom(s, pat, esc, i + Len(pat))
         ELSE ScanFrom(s, pat, esc, i + 1)

\* re.sub(pattern, "", s) for the same patterns
RECURSIVE RemoveFrom(_, _, _, _)
RemoveFrom(s, pat, esc, i) ==
    IF i >= Len(s) THEN <<>>
    ELSE IF MatchAt(s, pat, i) /\ (esc => NotEscaped(s, i))
         THEN RemoveFrom(s, pat, esc, i + Len(pat))
         ELSE <<At(s, i)>> \o RemoveFrom(s, pat, esc, i + 1)

positions(pat, esc, text) == ScanFrom(text, pat, esc, 0)

\* the offsets matched by (?<!\\)\$(?!\$)
InlineDollarAt(t) ==
    {j \in 0..(Len(t) - 1) :
        /\ At(t, j) = DL
        /\ NotEscaped(t, j)
        /\ ~(j + 1 < Len(t) /\ At(t, j + 1) = DL)}

\* the offsets matched by (?<!BT)BT(?!BT), BT the backtick
SingleBacktickAt(t) ==
    {j \in 0..(Len(t) - 1) :
        /\ At(t, j) = BT
        /\ ~(j > 0 /\ At(t, j - 1) = BT)
        /\ ~(j + 1 < Len(t) /\ At(t, j + 1) = BT)}

is_balanced(pat, chunk) == Len(positions(pat, FALSE, chunk)) % 2 = 0

\* ------------------------------------------------------- find_safe_split
\* initial_candidate cutting in front of a line break or space, not after it
initial_candidate_before(s, limit) ==
    LET para  == rfind(s, <<NL, NL>>, 0, limit)
        line  == rfind(s, <<NL>>, 0, limit)
        space == rfind(s, <<SP>>, 0, limit)
    IN  IF para # -1 THEN para + 2
        ELSE IF line # -1 THEN line
        ELSE IF space # -1 THEN space
        ELSE limit

\* initial_candidate trying the line break before the paragraph break
initial_candidate_line_first(s, limit) ==
    LET para  == rfind(s, <<NL, NL>>, 0, limit)
        line  == rfind(s, <<NL>>, 0, limit)
        space == rfind(s, <<SP>>, 0, limit)
    IN  IF line # -1 THEN line + 1
        ELSE IF para # -1 THEN para + 2
        ELSE IF space # -1 THEN space + 1
        ELSE limit

initial_candidate(s, limit) ==
    LET para  == rfind(s, <<NL, NL>>, 0, limit)
        line  == rfind(s, <<NL>>, 0, limit)
        space == rfind(s, <<SP>>, 0, limit)
    IN  IF para # -1 THEN para + 2
        ELSE IF line # -1 THEN line + 1
        ELSE IF space # -1 THEN space + 1
        ELSE limit

fence_count(prefix) == Len(positions(FENCE, FALSE, prefix))
display_dollar_count(prefix) == Len(positions(DISPLAY, TRUE, prefix))
start_bracket_count(prefix) == Len(positions(BRACKET_OPEN, TRUE, prefix))
end_bracket_count(prefix) == Len(positions(BRACKET_CLOSE, TRUE, prefix))
inline_dollar_count(prefix) ==
    Cardinality(InlineDollarAt(RemoveFrom(prefix, DISPLAY, TRUE, 0)))
single_backtick_count(prefix) ==
    Cardinality(SingleBacktickAt(RemoveFrom(prefix, FENCE, FALSE, 0)))

\* unsafe_at without its fifth check, the single backticks
unsafe_at_without_backticks(prefix) ==
    \/ fence_count(prefix) % 2 = 1
    \/ display_dollar_count(prefix) % 2 = 1
    \/ start_bracket_count(prefix) > end_bracket_count(prefix)
    \/ inline_dollar_count(prefix) % 2 = 1

unsafe_at(prefix) ==
    \/ fence_count(prefix) % 2 = 1
    \/ display_dollar_count(prefix) % 2 = 1
    \/ start_bracket_count(prefix) > end_bracket_count(prefix)
    \/ inline_dollar_count(prefix) % 2 = 1
    \/ single_backtick_count(prefix) % 2 = 1


\* the rollback loop, lines 323-341; the first search is for the raw string
\* r"\n\n", i.e. the four characters backslash, n, backslash, n
RAW_PARAGRAPH == <<BS, "n", BS, "n">>

RECURSIVE rollback(_, _, _)
rollback(text, candidate, max_len) ==
    IF ~(candidate > 0 /\ unsafe_at(PySlice(text, 0, candidate)))
    THEN candidate
    ELSE LET prev_paragraph == rfind(text, RAW_PARAGRAPH, 0, candidate - 1)
             prev_line      == rfind(text, <<NL>>, 0, candidate - 1)
             prev_space     == rfind(text, <<SP>>, 0, candidate - 1)
         IN  IF prev_paragraph # -1
             THEN rollback(text, Min(prev_paragraph + 2, max_len - 1), max_len)
             ELSE IF prev_line # -1
             THEN rollback(text, Min(prev_line + 1, max_len - 1), max_len)
             ELSE IF prev_space # -1
             THEN rollback(text, Min(prev_space + 1, max_len - 1), max_len)
             ELSE 1

\* lines 325-336: where one pass of the rollback loop moves the candidate
\* before the clamp, -1 when it finds nothing and breaks
rollback_move(text, candidate) ==
    LET prev_paragraph == rfind(text, RAW_PARAGRAPH, 0, candidate - 1)
        prev_line      == rfind(text, <<NL>>, 0, candidate - 1)
        prev_space     == rfind(text, <<SP>>, 0, candidate - 1)
    IN  IF prev_paragraph # -1 THEN prev_paragraph + 2
        ELSE IF prev_line # -1 THEN prev_line + 1
        ELSE IF prev_space # -1 THEN prev_space + 1
        ELSE -1

\* the candidates the rollback loop holds at its test, lines 323-336, from
\* the initial candidate to the one it leaves the search with (the
\* assignment candidate = 1 of line 340 is not among them)
RECURSIVE rollback_moves(_, _, _)
rollback_moves(text, candidate, max_len) ==
    IF ~(candidate > 0 /\ unsafe_at(PySlice(text, 0, candidate)))
    THEN <<candidate>>
    ELSE IF rollback_move(text, candidate) = -1
    THEN <<candidate>>
    ELSE <<candidate>>
            \o rollback_moves(text,
                               Min(rollback_move(text, candidate), max_len - 1),
                               max_len)

find_new_line_position_from_end(text, target_pos, block_start, min_distance) ==
    LET newline_pos == rfind(text, <<NL>>, block_start, target_pos)
    IN  IF newline_pos # -1 /\ newline_pos > block_start + min_distance
        THEN newline_pos + 1
        ELSE target_pos

detect_block_context(prefix) ==
    LET fence_positions   == positions(FENCE, FALSE, prefix)
        display_positions == positions(DISPLAY, TRUE, prefix)
        start_bracket_positions == positions(BRACKET_OPEN, TRUE, prefix)
        end_bracket_positions   == positions(BRACKET_CLOSE, TRUE, prefix)
    IN  IF Len(fence_positions) % 2 = 1
        THEN [type |-> "code_fence",
              start |-> fence_positions[Len(fence_positions)]]
        ELSE IF Len(display_positions) % 2 = 1
        THEN [type |-> "display_math",
              start |-> display_positions[Len(display_positions)]]
        ELSE IF Len(start_bracket_positions) > Len(end_bracket_positions)
        THEN [type |-> "bracket_math",
              start |-> start_bracket_positions[Len(start_bracket_positions)]]
        ELSE IF single_backtick_count(prefix) % 2 = 1
        THEN [type |-> "inline_code",
              start |-> rfind(prefix, <<BT>>, 0, Len(prefix))]
        ELSE IF inline_dollar_count(prefix) % 2 = 1
        THEN [type |-> "inline_math",
              start |-> rfind(prefix, <<DL>>, 0, Len(prefix))]
        ELSE [type |-> "none", start |-> -1]

\* the break points of split_latex_equations, in the order it tries them
BreakChars == << <<PLUS>>, <<"-">>, <<"=">>, <<BS, BS>> >>

\* the first break point, in list order, that lies past the minimum distance
RECURSIVE FirstBreak(_, _, _, _)
FirstBreak(text, target_pos, least, k) ==
    IF k > Len(BreakChars) THEN -1
    ELSE LET break_pos == rfind(text, BreakChars[k], 0, target_pos)
         IN  IF break_pos # -1 /\ break_pos > least
             THEN break_pos
             ELSE FirstBreak(text, target_pos, least, k + 1)

\* line 46: the characters split_latex_equations reserves below max_len
latex_space_needed(continuation_prefix) == Len(continuation_prefix)

\* lines 289-290: the characters the code-fence split reserves below max_len
fence_space_needed == Len(FENCE)

split_latex_equations(text, max_len, block_start, continuation_prefix, min_distance) ==
    LET space_needed == latex_space_needed(continuation_prefix)
        target_pos   == max_len - space_needed
        newline_pos  == rfind(text, <<NL>>, 0, target_pos)
        break_pos    == FirstBreak(text, target_pos, block_start + min_distance, 1)
        space_pos    == rfind(text, <<SP>>, 0, target_pos)
        split_pos    ==
            IF newline_pos # -1 /\ newline_pos > block_start + min_distance
            THEN newline_pos + 1
            ELSE IF break_pos # -1
            THEN break_pos + 1
            ELSE IF space_pos # -1 /\ space_pos > block_start + min_distance
            THEN space_pos + 1
            ELSE target_pos
    IN  [pos |-> split_pos, cont |-> continuation_prefix]

\* the width of the slice text[block_start:block_start+20] searched for the
\* opening fence and its language
FenceWindow == 20
FenceMinDistance == 10
MathMinDistance == 1

\* the greedy run (\w*) starting at offset i of w
RECURSIVE WordRun(_, _)
WordRun(w, i) ==
    IF i < Len(w) /\ At(w, i) \in WordChars
    THEN <<At(w, i)>> \o WordRun(w, i + 1)
    ELSE <<>>

\* re.search(FENCE(\w*), text[block_start:block_start+20]).group(1), "" when
\* there is no match
fence_language(text, block_start) ==
    LET window == PySlice(text, block_start, block_start + FenceWindow)
        found  == positions(FENCE, FALSE, window)
    IN  IF found = <<>> THEN <<>> ELSE WordRun(window, found[1] + 3)

smart_split_block(text, max_len, block_type, block_start) ==
    IF block_type = "code_fence"
    THEN LET language == fence_language(text, block_start)
             continuation_prefix == FENCE \o language \o <<NL>>
             target_pos == max_len - fence_space_needed
         IN  [pos  |-> find_new_line_position_from_end(
                           text, target_pos, block_start, FenceMinDistance),
              cont |-> continuation_prefix]
    ELSE IF block_type = "display_math"
    THEN split_latex_equations(text, max_len, block_start, <<DL, DL, NL>>, MathMinDistance)
    ELSE IF block_type = "bracket_math"
    THEN split_latex_equations(text, max_len, block_start, <<BS, LB, NL>>, MathMinDistance)
    ELSE IF block_type = "inline_math"
    THEN split_latex_equations(text, max_len, block_start, <<DL>>, MathMinDistance)
    ELSE IF block_type = "inline_code"
    THEN [pos |-> max_len - 1, cont |-> <<BT>>]
    ELSE [pos |-> max_len, cont |-> None]

\* the fit test with < for <=
fits_strict(text, max_len) == Len(text) < max_len

\* line 164: the whole text fits
fits(text, max_len) == Len(text) <= max_len

\* What find_safe_split answers: pos and cont are the pair it returns; path
\* names the return statement taken: fit (165), rollback (345), smart (356),
\* forced (360), fallback (364), candidate (365); block and start are what
\* detect_block_context answered on the smart path.
plain_split(p, path) ==
    [pos |-> p, cont |-> None, path |-> path, block |-> "none", start |-> -1]

smart_split(ctx, s) ==
    [pos |-> s.pos, cont |-> s.cont, path |-> "smart", block |-> ctx.type,
     start |-> ctx.start]

\* smart_or_forced with the forced cut one character beyond max_len
smart_or_forced_beyond(text, max_len, ctx) ==
    IF ctx.type # "none" /\ ctx.start >= 0
    THEN smart_split(ctx, smart_split_block(text, max_len, ctx.type, ctx.start))
    ELSE plain_split(max_len + 1, "forced")

\* lines 349-360: the smart split of the detected block, else the forced cut
smart_or_forced(text, max_len, ctx) ==
    IF ctx.type # "none" /\ ctx.start >= 0
    THEN smart_split(ctx, smart_split_block(text, max_len, ctx.type, ctx.start))
    ELSE plain_split(max_len, "forced")

\* lines 343-360: the rolled-back candidate if it is safe, else the block
\* detected in text[:max_len - 1]
after_rollback(text, max_len, rolled) ==
    IF rolled > 0 /\ ~unsafe_at(PySlice(text, 0, rolled))
    THEN plain_split(Min(rolled, Len(text)), "rollback")
    ELSE smart_or_forced(text, max_len,
                         detect_block_context(PySlice(text, 0, max_len - 1)))

\* lines 320-365: from the initial candidate on
split_from(text, max_len, candidate) ==
    IF unsafe_at(PySlice(text, 0, candidate))
    THEN after_rollback(text, max_len, rollback(text, candidate, max_len))
    ELSE IF candidate <= 0
    THEN plain_split(Min(Len(text), max_len), "fallback")
    ELSE plain_split(Min(candidate, Len(text)), "candidate")

find_safe_split(text, max_len) ==
    IF fits(text, max_len)
    THEN plain_split(Len(text), "fit")
    ELSE split_from(text, max_len, initial_candidate(text, max_len))

\* ------------------------------------------------------------- assembler
_get_closing_delimiter(continuation_prefix) ==
    IF startswith(continuation_prefix, FENCE) THEN <<NL, BT, BT, BT>>
    ELSE IF startswith(continuation_prefix, DISPLAY) THEN <<NL, DL, DL>>
    ELSE IF startswith(continuation_prefix, BRACKET_OPEN) THEN <<NL, BS, RB>>
    ELSE IF continuation_prefix = <<DL>> THEN <<DL>>
    ELSE IF continuation_prefix = <<BT>> THEN <<BT>>
    ELSE <<>>

\* the pattern r"\\\\]" of line 107: two backslashes and a closing bracket
BRACKET_BALANCE_PATTERN == <<BS, BS, RB>>

\* _handle_continuation that lets go of a pending "$" or single backtick
\* when no new continuation arrives
_handle_continuation_clearing(chunk, continuation_prefix, current_pending) ==
    IF continuation_prefix # <<>>
    THEN [chunk   |-> chunk \o _get_closing_delimiter(continuation_prefix),
          pending |-> continuation_prefix]
    ELSE IF Len(current_pending) = 1
    THEN [chunk |-> chunk, pending |-> None]
    ELSE [chunk |-> chunk, pending |-> current_pending]

\* _handle_continuation that keeps an earlier pending continuation when a
\* new one arrives
_handle_continuation_keeping(chunk, continuation_prefix, current_pending) ==
    IF continuation_prefix # <<>>
    THEN [chunk   |-> chunk \o _get_closing_delimiter(continuation_prefix),
          pending |-> IF current_pending # <<>> THEN current_pending
                      ELSE continuation_prefix]
    ELSE [chunk |-> chunk, pending |-> current_pending]

_handle_continuation(chunk, continuation_prefix, current_pending) ==
    LET closed == chunk \o _get_closing_delimiter(current_pending)
        carry  == [chunk |-> closed, pending |-> current_pending]
        done   == [chunk |-> chunk, pending |-> None]
    IN  IF continuation_prefix # <<>>
        THEN [chunk   |-> chunk \o _get_closing_delimiter(continuation_prefix),
              pending |-> continuation_prefix]
        ELSE IF current_pending # <<>>
        THEN IF startswith(current_pending, FENCE)
             THEN IF ~is_balanced(FENCE, chunk) THEN carry ELSE done
             ELSE IF startswith(current_pending, DISPLAY)
             THEN IF ~is_balanced(DISPLAY, chunk) THEN carry ELSE done
             ELSE IF startswith(current_pending, BRACKET_OPEN)
             THEN IF ~is_balanced(BRACKET_BALANCE_PATTERN, chunk) THEN carry ELSE done
             ELSE carry
        ELSE [chunk |-> chunk, pending |-> current_pending]

\* compiled_patterns: [ \t\n\r]* followed by one of these literals
compiled_patterns == << FENCE, DISPLAY, BRACKET_OPEN, DISPLAY, <<BT, BT>> >>

\* the length of the greedy run [ \t\n\r]* at the start of s
RECURSIVE LeadingSpace(_)
LeadingSpace(s) ==
    IF s # <<>> /\ Head(s) \in SpaceChars THEN 1 + LeadingSpace(Tail(s)) ELSE 0

\* m.end() of the first pattern of compiled_patterns that matches, -1 if none
RECURSIVE FirstPatternEnd(_, _)
FirstPatternEnd(chunk, k) ==
    IF k > Len(compiled_patterns) THEN -1
    ELSE IF MatchAt(chunk, compiled_patterns[k], LeadingSpace(chunk))
         THEN LeadingSpace(chunk) + Len(compiled_patterns[k])
         ELSE FirstPatternEnd(chunk, k + 1)

_strip_leading_empty_blocks(chunk, continuation_prefix, current_pending) ==
    LET end == FirstPatternEnd(chunk, 1)
    IN  IF end # -1
        THEN [chunk |-> PyTail(chunk, end), cont |-> None, pending |-> None]
        ELSE [chunk |-> chunk, cont |-> continuation_prefix,
              pending |-> current_pending]

VARIABLES
    text,             \* the argument text
    max_chunk_size,   \* the argument max_chunk_size
    remaining,        \* the local remaining
    chunks,           \* the local chunks, the result once pc = "done"
    pending_prefix,   \* the local pending_prefix
    pc,               \* "loop" at the while test, "done" after the return
    calls             \* one record for each iteration of the loop so far

vars == <<text, max_chunk_size, remaining, chunks, pending_prefix, pc, calls>>

\* the loop without the guard of lines 387-390
guard_off(rem, max, r) ==
    [pos |-> r.pos, cont |-> r.cont, found |-> r, guarded |-> FALSE]

\* the guard dropping the continuation of a non-positive answer but keeping
\* its position
guard_keeping_position(rem, max, r) ==
    IF r.pos <= 0
    THEN [pos |-> r.pos, cont |-> None, found |-> r, guarded |-> TRUE]
    ELSE [pos |-> r.pos, cont |-> r.cont, found |-> r, guarded |-> FALSE]

\* lines 387-390: the guard for split_pos <= 0 on the resolver's answer r;
\* found keeps the answer itself
guard(rem, max, r) ==
    IF r.pos <= 0
    THEN [pos |-> Min(Len(rem), max), cont |-> None, found |-> r,
          guarded |-> TRUE]
    ELSE [pos |-> r.pos, cont |-> r.cont, found |-> r, guarded |-> FALSE]

\* lines 385-390: the call of the resolver and the guard
guarded_split(rem, max) == guard(rem, max, find_safe_split(rem, max))

\* advance dropping the character at the cut
advance_skipping(rem, split_pos, active) ==
    IF active THEN PyTail(rem, split_pos + 1)
    ELSE lstrip(PyTail(rem, split_pos + 1))

\* lines 406-411: the remainder after the cut
advance(rem, split_pos, active) ==
    IF active THEN PyTail(rem, split_pos) ELSE lstrip(PyTail(rem, split_pos))

\* lines 396-397: the pending prefix goes in front of the slice
prefixed(pending, slice) ==
    IF pending # <<>> THEN pending \o slice ELSE slice

\* lines 412-415 and what the iteration leaves behind: the chunk appended,
\* the new remaining and pending_prefix, and in call what the iteration saw
\* (the resolver's argument and answer, the split position and continuation
\* behind the guard, the pending prefix on entry, the slice
\* remaining[:split_pos], the remainder before the cleanup and whether the
\* cleanup removed anything)
cleaned(rem, pending, g, slice, h, rest, cleanup, st) ==
    [chunk     |-> h.chunk,
     remaining |-> IF cleanup THEN st.chunk ELSE rest,
     pending   |-> IF cleanup THEN st.pending ELSE h.pending,
     call      |-> [arg |-> rem, pos |-> g.pos, cont |-> g.cont,
                    path |-> g.found.path, raw |-> g.found.pos,
                    rawcont |-> g.found.cont, block |-> g.found.block,
                    start |-> g.found.start, guarded |-> g.guarded,
                    pending_in |-> pending, slice |-> slice,
                    rest |-> rest, stripped |-> cleanup /\ st.chunk # rest]]

\* lines 401-415, given the chunk h and the remainder rest of this iteration
after_cut(rem, pending, max, g, slice, h, rest, active) ==
    cleaned(rem, pending, g, slice, h, rest,
            Len(rest) < max /\ active,
            _strip_leading_empty_blocks(rest, g.cont, h.pending))

\* lines 392-415, given the guarded answer g of the resolver
cut_at(rem, pending, max, g, slice, active) ==
    after_cut(rem, pending, max, g, slice,
              _handle_continuation(prefixed(pending, slice), g.cont, pending),
              advance(rem, g.pos, active),
              active)

\* lines 385-415: one iteration of the loop on (remaining, pending_prefix)
iteration_with(rem, pending, max, g) ==
    cut_at(rem, pending, max, g, PySlice(rem, 0, g.pos),
           g.cont # <<>> \/ pending # <<>>)

iteration(rem, pending, max) ==
    iteration_with(rem, pending, max, guarded_split(rem, max))

\* split_markdown_into_chunks as a function of its arguments: the chunks the
\* loop appends from (remaining, pending_prefix) on
RECURSIVE chunks_from(_, _, _)
chunks_after(it, max) ==
    <<it.chunk>> \o chunks_from(it.remaining, it.pending, max)

chunks_from(rem, pending, max) ==
    IF rem = <<>> THEN <<>> ELSE chunks_after(iteration(rem, pending, max), max)

split_markdown_into_chunks(t, max) == chunks_from(t, None, max)

\* the texts of at most n characters over the alphabet A
Texts(A, n) == UNION {[1..k -> A] : k \in 0..n}

Alphabet == {BT, DL, "a", SP}

Start(t, m) ==
    /\ text = t
    /\ max_chunk_size = m
    /\ remaining = t
    /\ chunks = <<>>
    /\ pending_prefix = None
    /\ pc = "loop"
    /\ calls = <<>>

\* a second family of texts, for bracket math and backslash escapes
BracketAlphabet == {DL, BS, LB, RB, SP}

Init ==
    \E t \in Texts(Alphabet, MaxTextLen) \cup Texts(BracketAlphabet, MaxTextLen),
       m \in 1..MaxChunkSize : Start(t, m)

\* texts that open a code fence at offset 0 and never close it, with chunk
\* sizes that hold at least an opening and a closing fence marker
FenceAlphabet == {"a", DL, NL}

InitFence ==
    \E t \in Texts(FenceAlphabet, MaxFenceTail),
       m \in (2 * Len(FENCE))..MaxFenceChunk : Start(FENCE \o t, m)

\* texts that open inline math or inline code at offset 0
InlineAlphabet == {"a", SP, PLUS, NL}

InitInline ==
    \E o \in {<<DL>>, <<BT>>}, t \in Texts(InlineAlphabet, MaxInlineTail),
       m \in 1..MaxInlineChunk : Start(o \o t, m)

\* texts with no delimiter at all: letters, spaces and newlines
PlainAlphabet == {"a", SP, NL}

InitPlain ==
    \E t \in Texts(PlainAlphabet, MaxPlainLen), m \in 1..MaxPlainChunk :
        Start(t, m)

\* texts that begin with a paragraph break, or with the four characters of
\* the raw string r"\n\n"
RollbackAlphabet == {"a", NL, DL}

InitRollback ==
    \E o \in {<<NL, NL>>, RAW_PARAGRAPH},
       t \in Texts(RollbackAlphabet, MaxRollbackTail),
       m \in 1..MaxRollbackChunk : Start(o \o t, m)

\* texts that open display math or bracket math at offset 0 and never close
\* it, with chunk sizes that leave room below max_len - 3 for a break point
\* past the minimum distance
MathAlphabet == {"a", PLUS, BS, NL, SP}

InitMath ==
    \E o \in {<<DL, DL>>, <<BS, LB>>}, t \in Texts(MathAlphabet, MaxMathTail),
       m \in (2 * Len(<<DL, DL>>) + MathMinDistance + 1)..MaxMathChunk :
           Start(o \o t, m)

\* texts in which a backslash can stand before each kind of delimiter
EscapeAlphabet == {BS, BT, DL, LB, "a"}

InitEscape ==
    \E t \in Texts(EscapeAlphabet, MaxEscapeLen), m \in 1..MaxEscapeChunk :
        Start(t, m)

\* lines 402-415: the assignments of one iteration it
Assign(it) ==
    /\ chunks' = Append(chunks, it.chunk)
    /\ remaining' = it.remaining
    /\ pending_prefix' = it.pending
    /\ calls' = Append(calls, it.call)

\* one pass through the body of the while loop, lines 384-415
Iterate ==
    /\ pc = "loop"
    /\ remaining # <<>>
    /\ Assign(iteration(remaining, pending_prefix, max_chunk_size))
    /\ UNCHANGED <<text, max_chunk_size, pc>>

\* the loop test fails (or the text was empty): return chunks
Return ==
    /\ pc = "loop"
    /\ remaining = <<>>
    /\ pc' = "done"
    /\ UNCHANGED <<text, max_chunk_size, remaining, chunks, pending_prefix, calls>>

Next == Iterate \/ Return

\* any integer max_chunk_size, zero and negative ones included
InitAnySize ==
    \E t \in Texts(Alphabet, MaxAnyLen), m \in (-MaxNegChunk)..MaxAnyChunk :
        Start(t, m)

\* one pass through the body of the loop, for as long as the run has made
\* fewer than len(text) + MaxStall passes
IterateBounded ==
    /\ Len(chunks) < Len(text) + MaxStall
    /\ Iterate

NextBounded == IterateBounded \/ Return

Spec == Init /\ [][Next]_vars
SpecFence == InitFence /\ [][Next]_vars
SpecInline == InitInline /\ [][Next]_vars
SpecPlain == InitPlain /\ [][Next]_vars
SpecRollback == InitRollback /\ [][Next]_vars
SpecMath == InitMath /\ [][Next]_vars
SpecEscape == InitEscape /\ [][Next]_vars
SpecAnySize == InitAnySize /\ [][NextBounded]_vars


\* ================================================================ claims
\* the iteration took the forced cut of line 360 or the guard of line 387
Forced(call) == call.path = "forced" \/ call.guarded
NoForcedCut == \A i \in 1..Len(calls) : ~Forced(calls[i])

\* str.count of a single character
Count(s, ch) == Cardinality({j \in 1..Len(s) : s[j] = ch})

\* the assertions of test_balanced_delimiters_comprehensive on one chunk
balanced_as_tested(chunk) ==
    LET without_triple  == RemoveFrom(chunk, FENCE, FALSE, 0)
        without_display == RemoveFrom(without_triple, DISPLAY, FALSE, 0)
    IN  /\ Len(positions(FENCE, FALSE, chunk)) % 2 = 0
        /\ Len(positions(DISPLAY, FALSE, chunk)) % 2 = 0
        /\ Len(positions(BRACKET_OPEN, FALSE, chunk))
              <= Len(positions(BRACKET_CLOSE, FALSE, chunk))
        /\ Count(without_triple, BT) % 2 = 0
        /\ Count(without_display, DL) % 2 = 0

\* the characters of s that are not spaces or newlines
NoSpace(s) == SelectSeq(s, LAMBDA c : c \notin SpaceChars)

\* the slices remaining[:split_pos] of the iterations k.., concatenated
RECURSIVE SlicesFrom(_)
SlicesFrom(k) ==
    IF k > Len(calls) THEN <<>> ELSE calls[k].slice \o SlicesFrom(k + 1)

\* does s end with sub
endswith(s, sub) == MatchAt(s, sub, Len(s) - Len(sub))

\* C1: for a balanced input text, every chunk emitted outside the forced-split
\* path is balanced in isolation (even counts of fence markers, of $$, of
\* single backticks and of single $, and no more \[ than \]).  Stated at its
\* weakest: only for runs in which no cut at all was forced.
C1_ChunksBalanced ==
    (balanced_as_tested(text) /\ NoForcedCut)
        => \A i \in 1..Len(chunks) : balanced_as_tested(chunks[i])

\* C2: every emitted chunk (pending prefix + slice + closing delimiter) has
\* length <= max_chunk_size, except after a forced cut.  Stated at its
\* weakest: only for runs in which no cut at all was forced.
C2_LengthBound ==
    NoForcedCut => \A i \in 1..Len(chunks) : Len(chunks[i]) <= max_chunk_size

\* C3: the chunks without their synthetic prefix and closing delimiter, i.e.
\* the slices remaining[:split_pos], concatenated in order, are the input text
\* with nothing but whitespace removed.
C3_Reconstruction ==
    pc = "done" => NoSpace(SlicesFrom(1)) = NoSpace(text)

\* C4: find_safe_split returns 0 < pos <= len(text) on non-empty text, so the
\* guard for split_pos <= 0 is never taken.
C4_PositivePosition ==
    \A i \in 1..Len(calls) :
        /\ 0 < calls[i].raw
        /\ calls[i].raw <= Len(calls[i].arg)
        /\ ~calls[i].guarded

\* C5: every iteration of the loop strictly shortens remaining, and the loop
\* runs at most len(text) times.
C5_Progress ==
    [][(pc = "loop" /\ remaining # <<>>)
          => (Len(remaining') < Len(remaining) /\ Len(chunks') <= Len(text))]_vars

\* a finished run of three chunks or more on a text with no space or newline
\* that needed a smart split
C5_Witness ==
    /\ pc = "done"
    /\ Len(chunks) >= 3
    /\ NoSpace(text) = text
    /\ \E i \in 1..Len(calls) : calls[i].path = "smart"

\* C6: a text no longer than max_chunk_size is answered (len(text), None) by
\* find_safe_split and comes back as [] when empty and [text] otherwise,
\* whatever delimiters it holds; so every emitted chunk no longer than
\* max_chunk_size is returned unchanged when split again.
C6_WholeTextFits ==
    /\ Len(text) <= max_chunk_size =>
          /\ find_safe_split(text, max_chunk_size).pos = Len(text)
          /\ find_safe_split(text, max_chunk_size).cont = None
          /\ pc = "done" => chunks = IF text = <<>> THEN <<>> ELSE <<text>>
    /\ \A i \in 1..Len(chunks) :
          Len(chunks[i]) <= max_chunk_size =>
              split_markdown_into_chunks(chunks[i], max_chunk_size) = <<chunks[i]>>

\* a text that fits, holds an unclosed delimiter and came back as one chunk
C6_Witness ==
    /\ pc = "done"
    /\ text # <<>>
    /\ Len(text) <= max_chunk_size
    /\ unsafe_at(text)
    /\ chunks = <<text>>

\* the balance check of Step 1 as the claim words it
Step1Safe(prefix) ==
    /\ fence_count(prefix) % 2 = 0
    /\ display_dollar_count(prefix) % 2 = 0
    /\ start_bracket_count(prefix) <= end_bracket_count(prefix)
    /\ inline_dollar_count(prefix) % 2 = 0
    /\ single_backtick_count(prefix) % 2 = 0

\* C7: for a text longer than max_len, whenever find_safe_split returns
\* (pos, None) other than by the forced cut, text[0:pos] is safe under the
\* balance check of Step 1.
C7_SafePrefix ==
    \A i \in 1..Len(calls) :
        (/\ Len(calls[i].arg) > max_chunk_size
         /\ calls[i].rawcont = None
         /\ calls[i].path # "forced")
            => Step1Safe(PySlice(calls[i].arg, 0, calls[i].raw))

\* the resolver rolled back from an unsafe candidate to an earlier boundary
C7_Witness ==
    \E i \in 1..Len(calls) :
        /\ calls[i].path = "rollback"
        /\ Len(calls[i].arg) > max_chunk_size
        /\ unsafe_at(PySlice(calls[i].arg, 0,
                             initial_candidate(calls[i].arg, max_chunk_size)))
        /\ calls[i].raw > 1

\* C8: a smart split of an inline-math or inline-code region returns
\* pos = max_len - 1 and the continuation "$" or the single backtick,
\* whatever newlines, spaces or operators the region holds.
C8_InlineSplitArithmetic ==
    \A i \in 1..Len(calls) :
        /\ (calls[i].path = "smart" /\ calls[i].block = "inline_math")
              => (calls[i].raw = max_chunk_size - 1 /\ calls[i].rawcont = <<DL>>)
        /\ (calls[i].path = "smart" /\ calls[i].block = "inline_code")
              => (calls[i].raw = max_chunk_size - 1 /\ calls[i].rawcont = <<BT>>)

\* the characters the resolver reserved below max_len for this smart split
Reserved(call) ==
    IF call.block = "code_fence" THEN fence_space_needed
    ELSE latex_space_needed(call.rawcont)

\* C9: for code-fence, display-math and bracket-math smart splits the
\* characters reserved below max_len are as many as the closing delimiter the
\* assembler appends, so the slice plus that delimiter never exceeds max_len.
C9_ReservedMatchesClosing ==
    \A i \in 1..Len(calls) :
        (/\ calls[i].path = "smart"
         /\ calls[i].block \in {"code_fence", "display_math", "bracket_math"})
            => /\ Reserved(calls[i]) = Len(_get_closing_delimiter(calls[i].rawcont))
               /\ calls[i].raw + Len(_get_closing_delimiter(calls[i].rawcont))
                     <= max_chunk_size

\* C10: a code-fence smart split returns the fence marker, the run of word
\* characters that follows the opening marker, and a newline; the chunk
\* emitted for it ends with the fence marker; and every later chunk of the
\* same fence starts with that continuation.  (Under SpecFence the one fence
\* of the text is never closed, so every later chunk continues it.)
C10_FenceContinuation ==
    \A i \in 1..Len(calls) :
        (calls[i].path = "smart" /\ calls[i].block = "code_fence")
            => /\ calls[i].rawcont
                    = FENCE \o WordRun(calls[i].arg, calls[i].start + 3) \o <<NL>>
               /\ endswith(chunks[i], FENCE)
               /\ \A j \in (i + 1)..Len(chunks) :
                     startswith(chunks[j], calls[i].rawcont)

\* C11: whenever the resolver's continuation c for a chunk is non-empty (and
\* was not discarded by the guard) and the chunk is not the last one, the
\* next emitted chunk begins with c.
C11_NextChunkContinues ==
    \A i \in 1..Len(calls) :
        (calls[i].cont # <<>> /\ i < Len(chunks))
            => startswith(chunks[i + 1], calls[i].cont)

\* the chunks k.. concatenated
RECURSIVE JoinFrom(_)
JoinFrom(k) ==
    IF k > Len(chunks) THEN <<>> ELSE chunks[k] \o JoinFrom(k + 1)

\* the characters of s
Chars(s) == {s[j] : j \in 1..Len(s)}

\* C12: once the run has ended, every character of the input that is not
\* whitespace occurs in the concatenation of all emitted chunks at least as
\* often as in the input text.
C12_NoSymbolLoss ==
    pc = "done" =>
        \A c \in Chars(text) \ SpaceChars :
            Count(JoinFrom(1), c) >= Count(text, c)

\* a text with no backtick, dollar sign or backslash
PlainText(s) == Chars(s) \cap {BT, DL, BS} = {}

\* the cut of iteration i fell between two characters that are both neither
\* space nor newline
MidWord(call) ==
    /\ call.pos >= 1
    /\ call.pos < Len(call.arg)
    /\ At(call.arg, call.pos - 1) \notin SpaceChars
    /\ At(call.arg, call.pos) \notin SpaceChars

\* C13: for a text with no backtick, dollar sign or backslash, every chunk
\* that is followed by another chunk and is shorter than max_chunk_size ends
\* with a space or a newline; and a cut falls in the middle of a word only
\* when the first max_chunk_size characters of the remainder hold no space or
\* newline, and then the chunk has exactly max_chunk_size characters.
C13_PlainCuts ==
    PlainText(text) =>
        \A i \in 1..(Len(chunks) - 1) :
            /\ Len(chunks[i]) < max_chunk_size
                  => chunks[i][Len(chunks[i])] \in SpaceChars
            /\ MidWord(calls[i])
                  => /\ Chars(PySlice(calls[i].arg, 0, max_chunk_size))
                            \cap SpaceChars = {}
                     /\ Len(chunks[i]) = max_chunk_size

\* a plain text cut once after a space or newline, short of max_chunk_size,
\* and once in the middle of a word
C13_Witness ==
    /\ PlainText(text)
    /\ \E i \in 1..(Len(chunks) - 1) :
          /\ Len(chunks[i]) < max_chunk_size
          /\ chunks[i][Len(chunks[i])] \in SpaceChars
    /\ \E j \in 1..(Len(chunks) - 1) : MidWord(calls[j])

\* the resolver was called on a text longer than max_chunk_size, its initial
\* candidate left an unsafe prefix, and no space or newline lies before the
\* candidate
NoEarlierBoundary(call) ==
    /\ Len(call.arg) > max_chunk_size
    /\ unsafe_at(PySlice(call.arg, 0, initial_candidate(call.arg, max_chunk_size)))
    /\ Chars(PySlice(call.arg, 0, initial_candidate(call.arg, max_chunk_size)))
          \cap SpaceChars = {}

\* C14: when the candidate's prefix is unsafe and no paragraph break, line
\* break or space lies before the candidate, the resolver does not return a
\* rollback position but goes on to Step 4 (the smart split or, with no
\* region found, the forced cut), whether or not the text begins with a
\* delimiter.
C14_NoBoundaryMeansSmartSplit ==
    \A i \in 1..Len(calls) :
        NoEarlierBoundary(calls[i]) => calls[i].path \in {"smart", "forced"}

\* the rollback move as the claim words it, from candidate c: just after the
\* nearest paragraph break (two newlines) before c if there is one, else just
\* after the nearest line break, else just after the nearest space, -1 when
\* there is none; "before c" is read as the source reads it, wholly within
\* text[0:c-1]
MoveAsClaimed(t, c) ==
    LET para  == rfind(t, <<NL, NL>>, 0, c - 1)
        line  == rfind(t, <<NL>>, 0, c - 1)
        space == rfind(t, <<SP>>, 0, c - 1)
    IN  IF para # -1 THEN para + 2
        ELSE IF line # -1 THEN line + 1
        ELSE IF space # -1 THEN space + 1
        ELSE -1

\* the candidates of the rollback of a call, empty when there was none
RollbackOf(call) ==
    IF Len(call.arg) > max_chunk_size
       /\ unsafe_at(PySlice(call.arg, 0,
                            initial_candidate(call.arg, max_chunk_size)))
    THEN rollback_moves(call.arg,
                        initial_candidate(call.arg, max_chunk_size),
                        max_chunk_size)
    ELSE <<>>

\* C15: every move of the rollback takes the candidate c to the position
\* just after the nearest paragraph break (two consecutive newlines) before
\* c if there is one, otherwise just after the nearest earlier line break,
\* otherwise just after the nearest earlier space.
C15_RollbackMoves ==
    \A i \in 1..Len(calls) :
        \A k \in 1..(Len(RollbackOf(calls[i])) - 1) :
            RollbackOf(calls[i])[k + 1]
                = MoveAsClaimed(calls[i].arg, RollbackOf(calls[i])[k])

\* s without its trailing spaces and newlines
RECURSIVE rstrip(_)
rstrip(s) ==
    IF s # <<>> /\ s[Len(s)] \in SpaceChars
    THEN rstrip(SubSeq(s, 1, Len(s) - 1))
    ELSE s

\* the natural terminator of the block a pending continuation reopens
Terminator(pending) ==
    IF startswith(pending, FENCE) THEN FENCE
    ELSE IF startswith(pending, DISPLAY) THEN DISPLAY
    ELSE BRACKET_CLOSE

\* a fence, display-math or bracket-math continuation was pending and the
\* resolver returned none for this chunk
PendingOnly(call) ==
    /\ call.rawcont = None
    /\ \/ startswith(call.pending_in, FENCE)
       \/ startswith(call.pending_in, DISPLAY)
       \/ startswith(call.pending_in, BRACKET_OPEN)

\* what the claim has the assembler make of body, the pending prefix and
\* the slice: the chunk and the pending continuation it leaves
HandledAsClaimed(body, pending) ==
    IF endswith(rstrip(body), Terminator(pending))
    THEN [chunk |-> body, pending |-> None]
    ELSE [chunk |-> body \o _get_closing_delimiter(pending), pending |-> pending]

\* C16: when a fence, display-math or bracket-math continuation is pending and
\* the resolver returns no continuation, then: if the chunk without its
\* trailing whitespace ends with the terminator of the pending kind, nothing is
\* appended and pending is cleared; otherwise the closing delimiter of the
\* pending kind is appended and pending is kept.
C16_PendingByChunkEnd ==
    \A i \in 1..Len(calls) :
        PendingOnly(calls[i]) =>
            _handle_continuation(prefixed(calls[i].pending_in, calls[i].slice),
                                 calls[i].cont, calls[i].pending_in)
                = HandledAsClaimed(prefixed(calls[i].pending_in, calls[i].slice),
                                   calls[i].pending_in)

\* after an opener: nothing but whitespace up to the closer or to the end of
\* the text
ClosesAtOnce(s, closer) ==
    lstrip(s) = <<>> \/ startswith(lstrip(s), closer)

\* s begins, after leading whitespace, with the opener of an empty block
EmptyBlockAhead(s) ==
    \/ /\ startswith(lstrip(s), FENCE)
       /\ ClosesAtOnce(PyTail(lstrip(s), Len(FENCE)), FENCE)
    \/ /\ startswith(lstrip(s), DISPLAY)
       /\ ClosesAtOnce(PyTail(lstrip(s), Len(DISPLAY)), DISPLAY)
    \/ /\ startswith(lstrip(s), BRACKET_OPEN)
       /\ ClosesAtOnce(PyTail(lstrip(s), Len(BRACKET_OPEN)), BRACKET_CLOSE)
    \/ /\ startswith(lstrip(s), <<BT, BT>>)
       /\ ~startswith(lstrip(s), FENCE)

\* C17: the cleanup removes something only when a continuation was active in
\* the round, the new remainder is shorter than max_chunk_size and the
\* remainder begins, after leading whitespace, with the opener of an empty
\* block; a remainder that begins with the opener of a block that is not
\* empty is left as it is.
C17_CleanupOnlyEmptyBlocks ==
    \A i \in 1..Len(calls) :
        calls[i].stripped =>
            /\ calls[i].cont # <<>> \/ calls[i].pending_in # <<>>
            /\ Len(calls[i].rest) < max_chunk_size
            /\ EmptyBlockAhead(calls[i].rest)

\* remaining as iteration i left it
RemainingAfter(i) == IF i < Len(calls) THEN calls[i + 1].arg ELSE remaining

\* C18: whenever the resolver returns a position <= 0, the guard replaces it
\* with min(len(remaining), max_chunk_size) and discards the continuation, and
\* the iteration consumes at least one character of remaining, whatever
\* integer max_chunk_size is.
C18_GuardForcesProgress ==
    \A i \in 1..Len(calls) :
        calls[i].raw <= 0 =>
            /\ calls[i].guarded
            /\ calls[i].pos = Min(Len(calls[i].arg), max_chunk_size)
            /\ calls[i].cont = None
            /\ Len(RemainingAfter(i)) < Len(calls[i].arg)

\* the rollback of the call failed: the resolver went on to lines 347-360
RollbackFailed(call) == call.path \in {"smart", "forced"}

\* C19: after a failed rollback the resolver takes the forced cut only when
\* text[0:max_len] holds no unclosed region under the parity rules of Step 1;
\* whenever text[0:max_len] holds an unclosed region it returns a smart split
\* with a non-empty continuation.
C19_ForcedOnlyWithoutRegion ==
    \A i \in 1..Len(calls) :
        RollbackFailed(calls[i]) =>
            /\ calls[i].path = "forced"
                  => ~unsafe_at(PySlice(calls[i].arg, 0, max_chunk_size))
            /\ unsafe_at(PySlice(calls[i].arg, 0, max_chunk_size))
                  => (calls[i].path = "smart" /\ calls[i].rawcont # <<>>)

\* the positions just after a paragraph break (two consecutive newlines)
\* that lies wholly within w
ParagraphEnds(w) ==
    {j + 2 : j \in {k \in 0..(Len(w) - 2) : At(w, k) = NL /\ At(w, k + 1) = NL}}

\* the positions just after an occurrence of the character c in w
EndsOf(w, c) == {j + 1 : j \in {k \in 0..(Len(w) - 1) : At(w, k) = c}}

\* the initial candidate as the claim words it, w the window text[0:max_len]
CandidateAsClaimed(w, max_len) ==
    IF ParagraphEnds(w) # {} THEN SetMax(ParagraphEnds(w))
    ELSE IF EndsOf(w, NL) # {} THEN SetMax(EndsOf(w, NL))
    ELSE IF EndsOf(w, SP) # {} THEN SetMax(EndsOf(w, SP))
    ELSE max_len

\* C20: for a text longer than max_len the initial candidate is the position
\* just after the last paragraph break wholly within text[0:max_len] if there
\* is one, otherwise just after the last newline of text[0:max_len], otherwise
\* just after its last space, otherwise max_len; it never exceeds max_len; and
\* it is the position the resolver returns when it returns the candidate.
C20_InitialCandidate ==
    \A i \in 1..Len(calls) :
        Len(calls[i].arg) > max_chunk_size =>
            /\ initial_candidate(calls[i].arg, max_chunk_size)
                  = CandidateAsClaimed(PySlice(calls[i].arg, 0, max_chunk_size),
                                       max_chunk_size)
            /\ initial_candidate(calls[i].arg, max_chunk_size) <= max_chunk_size
            /\ calls[i].path = "candidate"
                  => calls[i].raw
                        = CandidateAsClaimed(PySlice(calls[i].arg, 0, max_chunk_size),
                                             max_chunk_size)

\* the resolver cut just after a paragraph break although a newline or a
\* space lies later in text[0:max_len]
C20_Witness ==
    \E i \in 1..Len(calls) :
        /\ Len(calls[i].arg) > max_chunk_size
        /\ calls[i].path = "candidate"
        /\ ParagraphEnds(PySlice(calls[i].arg, 0, max_chunk_size)) # {}
        /\ calls[i].raw
              = SetMax(ParagraphEnds(PySlice(calls[i].arg, 0, max_chunk_size)))
        /\ \E e \in EndsOf(PySlice(calls[i].arg, 0, max_chunk_size), NL)
                      \cup EndsOf(PySlice(calls[i].arg, 0, max_chunk_size), SP) :
              e > calls[i].raw

\* pending_prefix as iteration i left it
PendingAfter(i) ==
    IF i < Len(calls) THEN calls[i + 1].pending_in ELSE pending_prefix

\* the table of closing delimiters as the claim gives it
ClosingAsClaimed(c) ==
    IF startswith(c, FENCE) THEN <<NL>> \o FENCE
    ELSE IF startswith(c, DISPLAY) THEN <<NL>> \o DISPLAY
    ELSE IF startswith(c, BRACKET_OPEN) THEN <<NL>> \o BRACKET_CLOSE
    ELSE IF c = <<DL>> THEN <<DL>>
    ELSE IF c = <<BT>> THEN <<BT>>
    ELSE <<>>

SinglePendingOnly(call) ==
    /\ call.pending_in \in {<<DL>>, <<BT>>}
    /\ call.cont = None

RECURSIVE KeptFrom(_, _, _, _)
KeptFrom(s, pat, esc, i) ==
    IF i >= Len(s) THEN <<>>
    ELSE IF MatchAt(s, pat, i) /\ (esc => NotEscaped(s, i))
         THEN KeptFrom(s, pat, esc, i + Len(pat))
         ELSE <<i>> \o KeptFrom(s, pat, esc, i + 1)

\* the offset in prefix of the last single "$" that the parity rule counts
LastInlineDollar(prefix) ==
    KeptFrom(prefix, DISPLAY, TRUE, 0)
        [SetMax(InlineDollarAt(RemoveFrom(prefix, DISPLAY, TRUE, 0))) + 1]

\* the offset in prefix of the last single backtick that the parity rule
\* counts
LastSingleBacktick(prefix) ==
    KeptFrom(prefix, FENCE, FALSE, 0)
        [SetMax(SingleBacktickAt(RemoveFrom(prefix, FENCE, FALSE, 0))) + 1]

\* the first unclosed kind of the prefix in the order code fence, display
\* math, bracket math, inline code, inline math, with the offset of the last
\* opening delimiter of that kind
RegionAsClaimed(prefix) ==
    IF fence_count(prefix) % 2 = 1
    THEN [type  |-> "code_fence",
          start |-> positions(FENCE, FALSE, prefix)[fence_count(prefix)]]
    ELSE IF display_dollar_count(prefix) % 2 = 1
    THEN [type  |-> "display_math",
          start |-> positions(DISPLAY, TRUE, prefix)[display_dollar_count(prefix)]]
    ELSE IF start_bracket_count(prefix) > end_bracket_count(prefix)
    THEN [type  |-> "bracket_math",
          start |-> positions(BRACKET_OPEN, TRUE, prefix)[start_bracket_count(prefix)]]
    ELSE IF single_backtick_count(prefix) % 2 = 1
    THEN [type |-> "inline_code", start |-> LastSingleBacktick(prefix)]
    ELSE IF inline_dollar_count(prefix) % 2 = 1
    THEN [type |-> "inline_math", start |-> LastInlineDollar(prefix)]
    ELSE [type |-> "none", start |-> -1]

\* C23: a smart split dispatches on the first unclosed kind of the scanned
\* prefix in the order code fence, display math, bracket math, inline code,
\* inline math, and takes as region start the offset of the last opening
\* delimiter of that kind.
C23_DispatchOrderAndStart ==
    \A i \in 1..Len(calls) :
        calls[i].path = "smart" =>
            /\ calls[i].block
                  = RegionAsClaimed(PySlice(calls[i].arg, 0, max_chunk_size - 1)).type
            /\ calls[i].start
                  = RegionAsClaimed(PySlice(calls[i].arg, 0, max_chunk_size - 1)).start

\* the indices of the newlines of t strictly after s + 10 and strictly
\* before max_len - 3
FenceNewlines(t, s, max_len) ==
    {j \in (s + 11)..(max_len - 4) : j >= 0 /\ j < Len(t) /\ At(t, j) = NL}

\* the cut of a code-fence smart split as the claim words it
FenceCutAsClaimed(t, s, max_len) ==
    IF FenceNewlines(t, s, max_len) # {}
    THEN SetMax(FenceNewlines(t, s, max_len)) + 1
    ELSE max_len - 3

\* C24: a code-fence smart split with region start s cuts just after the last
\* newline whose index is > s + 10 and < max_len - 3 if there is one and at
\* max_len - 3 otherwise; the cut is never beyond max_len - 3 and never
\* inside or before the opening fence marker, i.e. never before s + 3.
C24_FenceCut ==
    \A i \in 1..Len(calls) :
        (calls[i].path = "smart" /\ calls[i].block = "code_fence") =>
            /\ calls[i].raw
                  = FenceCutAsClaimed(calls[i].arg, calls[i].start, max_chunk_size)
            /\ calls[i].raw <= max_chunk_size - 3
            /\ calls[i].raw >= calls[i].start + Len(FENCE)

\* the offsets just after an occurrence of tok in t that begins past least
\* and ends at or before target
HitEnds(t, tok, least, target) ==
    {j + Len(tok) : j \in {k \in 0..(Len(t) - Len(tok)) :
                             /\ k > least
                             /\ k + Len(tok) <= target
                             /\ MatchAt(t, tok, k)}}

\* the offsets just after a qualifying break point of any of the four kinds
BreakEnds(t, least, target) ==
    UNION {HitEnds(t, BreakChars[k], least, target) : k \in 1..Len(BreakChars)}

\* the cut of a display-math or bracket-math smart split as the claim words
\* it: just after the last qualifying newline, else just after a qualifying
\* break point, else just after the last qualifying space, else the target
MathCutAsClaimed(t, least, target, cut) ==
    IF HitEnds(t, <<NL>>, least, target) # {}
    THEN cut = SetMax(HitEnds(t, <<NL>>, least, target))
    ELSE IF BreakEnds(t, least, target) # {}
    THEN cut \in BreakEnds(t, least, target)
    ELSE IF HitEnds(t, <<SP>>, least, target) # {}
    THEN cut = SetMax(HitEnds(t, <<SP>>, least, target))
    ELSE cut = target

\* C25: a display-math or bracket-math smart split has target max_len - 3 and
\* cuts just after a newline past the minimum distance from the region start
\* if there is one before the target, else just after one of +, -, = or the
\* two-backslash line-break token, else just after a space, else exactly at
\* the target; a qualifying newline wins over any operator or space.
C25_MathCut ==
    \A i \in 1..Len(calls) :
        (/\ calls[i].path = "smart"
         /\ calls[i].block \in {"display_math", "bracket_math"}) =>
            MathCutAsClaimed(calls[i].arg, calls[i].start + MathMinDistance,
                             max_chunk_size - 3, calls[i].raw)

\* every delimiter of prefix stands just after a backslash: each backtick,
\* each dollar sign, and each backslash that opens or closes bracket math
OnlyEscapedDelimiters(prefix) ==
    /\ \A j \in 0..(Len(prefix) - 1) :
           At(prefix, j) \in {BT, DL} => (j > 0 /\ At(prefix, j - 1) = BS)
    /\ \A j \in 0..(Len(prefix) - 2) :
           (At(prefix, j) = BS /\ At(prefix, j + 1) \in {LB, RB})
               => (j > 0 /\ At(prefix, j - 1) = BS)

\* C26: the balance check counts no delimiter that stands just after a
\* backslash, so a candidate prefix whose only delimiters are escaped is safe
\* and the resolver returns the initial candidate.
C26_EscapedNotCounted ==
    \A i \in 1..Len(calls) :
        (/\ Len(calls[i].arg) > max_chunk_size
         /\ OnlyEscapedDelimiters(
                PySlice(calls[i].arg, 0,
                        initial_candidate(calls[i].arg, max_chunk_size))))
            => /\ ~unsafe_at(PySlice(calls[i].arg, 0,
                        initial_candidate(calls[i].arg, max_chunk_size)))
               /\ calls[i].path = "candidate"

\* C27: for a text longer than max_len and max_len >= 1, the position
\* find_safe_split returns is at most max_len on every path (candidate,
\* rollback, smart split, forced cut, fallback), and the slice
\* remaining[0:pos] the assembler takes has at most max_len characters.
C27_PositionWithinMax ==
    \A i \in 1..Len(calls) :
        (Len(calls[i].arg) > max_chunk_size /\ max_chunk_size >= 1) =>
            /\ calls[i].path \in {"candidate", "rollback", "smart", "forced",
                                  "fallback"}
            /\ calls[i].raw <= max_chunk_size
            /\ calls[i].pos <= max_chunk_size
            /\ calls[i].slice = PySlice(calls[i].arg, 0, calls[i].pos)
            /\ Len(calls[i].slice) <= max_chunk_size

\* a forced cut took a slice of exactly max_chunk_size characters
C27_Witness ==
    \E i \in 1..Len(calls) :
        /\ Len(calls[i].arg) > max_chunk_size
        /\ max_chunk_size >= 1
        /\ calls[i].path = "forced"
        /\ calls[i].raw = max_chunk_size
        /\ Len(calls[i].slice) = max_chunk_size

\* C28: for a non-empty text and max_chunk_size >= 1, no chunk appended by
\* split_markdown_into_chunks is the empty string, and the list it returns
\* is not empty.
C28_NoEmptyChunk ==
    (text # <<>> /\ max_chunk_size >= 1) =>
        /\ \A k \in 1..Len(chunks) : chunks[k] # <<>>
        /\ pc = "done" => Len(chunks) >= 1

\* the function returned for a non-empty text after the guard for a
\* non-positive split position replaced the resolver's answer
C28_Witness ==
    /\ text # <<>>
    /\ max_chunk_size >= 1
    /\ pc = "done"
    /\ Len(chunks) >= 1
    /\ \E i \in 1..Len(calls) : calls[i].guarded /\ calls[i].slice # <<>>

\* the offset in the input at which the remainder rem begins, rem being a
\* suffix of the input
OffsetOf(rem) == Len(text) - Len(rem)

\* the offset in the input at which the remainder after iteration i begins
NextOffset(i) ==
    IF i < Len(calls) THEN OffsetOf(calls[i + 1].arg) ELSE OffsetOf(remaining)

\* iteration i took the slice of the input that begins where its remainder
\* begins, emitted it unchanged, and only spaces and newlines of the input
\* lie between its end and the beginning of the next remainder
SliceOfInput(i) ==
    /\ calls[i].arg = PyTail(text, OffsetOf(calls[i].arg))
    /\ calls[i].pos >= 1
    /\ calls[i].pos <= max_chunk_size
    /\ chunks[i] = PySlice(text, OffsetOf(calls[i].arg),
                           OffsetOf(calls[i].arg) + calls[i].pos)
    /\ Len(chunks[i]) <= max_chunk_size
    /\ NextOffset(i) >= OffsetOf(calls[i].arg) + calls[i].pos
    /\ Chars(PySlice(text, OffsetOf(calls[i].arg) + calls[i].pos,
                     NextOffset(i))) \subseteq SpaceChars

\* C29: for a text with no backtick, dollar sign or backslash and
\* max_chunk_size >= 1, the pending prefix is none in every iteration and no
\* delimiter is added: every chunk is a contiguous slice of the input of at
\* most max_chunk_size characters, the slices follow one another in input
\* order without overlap, and the input characters between two consecutive
\* slices are spaces and newlines stripped from the start of the remainder.
C29_PlainChunksAreSlices ==
    (PlainText(text) /\ max_chunk_size >= 1) =>
        /\ pending_prefix = None
        /\ Len(calls) = Len(chunks)
        /\ remaining = PyTail(text, OffsetOf(remaining))
        /\ (calls # <<>> => calls[1].arg = text)
        /\ \A i \in 1..Len(calls) :
               /\ calls[i].pending_in = None
               /\ calls[i].cont = None
               /\ SliceOfInput(i)
               /\ calls[i].rest
                     = lstrip(PyTail(calls[i].arg, calls[i].pos))
               /\ ~calls[i].stripped

\* a finished run on a plain text with one cut in the middle of a word and
\* one cut after which spaces or newlines were stripped
C29_Witness ==
    /\ PlainText(text)
    /\ max_chunk_size >= 1
    /\ pc = "done"
    /\ \E i \in 1..Len(calls) :
           i < Len(calls) /\ NextOffset(i) = OffsetOf(calls[i].arg) + calls[i].pos
    /\ \E i \in 1..Len(calls) :
           i < Len(calls) /\ NextOffset(i) > OffsetOf(calls[i].arg) + calls[i].pos

====
